---- MODULE Spec2Model ----
(***************************************************************************)
(* Debug-control protocol of the Robot Framework listener                  *)
(* src/resources/debug_listener_v2.py (class DebugListener): breakpoint    *)
(* store, call-stack tracker, step controller and the file-based pause     *)
(* gate, together with the external controller that mutates the shared     *)
(* files while the engine thread polls.                                    *)
(*                                                                         *)
(* Paths are sequences of one-character strings.  Log output is not        *)
(* modelled.  A keyword frame keeps its depth field only: name, kwname,    *)
(* source, lineno, args and type of a frame are written to the log and     *)
(* nowhere else.                                                           *)
(*                                                                         *)
(* The failure recorder src/resources/test_listener.py (class              *)
(* test_listener) is a second listener object with state of its own, held  *)
(* in the variable recorder.  Of the keyword attributes it copies into its *)
(* frames the model keeps name and source: kwname, libname, lineno, args   *)
(* and type are copied alongside them from the same event, unchanged.      *)
(***************************************************************************)
EXTENDS Integers, Sequences, FiniteSets, TLC

\* ------------------------------------------------------------------ bounds
MaxDepth == 3
MaxLine == 2
\* failures the recorder is given in one run, and the nesting of its keywords
MaxFailures == 2
MaxNesting == 2

\* poll_count % 30 == 0 : reload cadence of the poll loop
PollReload == 30

\* ------------------------------------------------------------------ paths
SL == "/"
BS == "\\"

P_fwd == <<"a", SL, "b">>
P_back == <<"a", BS, "b">>
P_dot == <<".", SL, "a", SL, "b">>
P_other == <<"c">>

Platforms == {"posix", "nt"}

RECURSIVE replace_altsep(_)
\* ntpath.normpath: path.replace(altsep, sep)
replace_altsep(path) ==
    IF path = <<>> THEN <<>>
    ELSE <<IF Head(path) = SL THEN BS ELSE Head(path)>> \o replace_altsep(Tail(path))

RECURSIVE split_path(_, _, _)
\* str.split(sep): the components of path, cur being the component under way
split_path(path, sep, cur) ==
    IF path = <<>> THEN <<cur>>
    ELSE IF Head(path) = sep THEN <<cur>> \o split_path(Tail(path), sep, <<>>)
    ELSE split_path(Tail(path), sep, Append(cur, Head(path)))

RECURSIVE norm_comps(_, _, _)
\* the component loop of normpath: '' and '.' are dropped, '..' pops the
\* preceding component unless that is '..' or there is none to pop
norm_comps(comps, acc, rooted) ==
    IF comps = <<>> THEN acc
    ELSE LET c == Head(comps)
             rest == Tail(comps)
         IN IF c = <<>> \/ c = <<".">> THEN norm_comps(rest, acc, rooted)
            ELSE IF c # <<".", ".">> THEN norm_comps(rest, Append(acc, c), rooted)
            ELSE IF acc # <<>> /\ acc[Len(acc)] # <<".", ".">>
                 THEN norm_comps(rest, SubSeq(acc, 1, Len(acc) - 1), rooted)
            ELSE IF acc = <<>> /\ rooted THEN norm_comps(rest, acc, rooted)
            ELSE norm_comps(rest, Append(acc, c), rooted)

RECURSIVE join_path(_, _)
\* sep.join(comps)
join_path(comps, sep) ==
    IF comps = <<>> THEN <<>>
    ELSE IF Len(comps) = 1 THEN Head(comps)
    ELSE Head(comps) \o <<sep>> \o join_path(Tail(comps), sep)

RECURSIVE lstrip_sep(_, _)
lstrip_sep(path, sep) ==
    IF path # <<>> /\ Head(path) = sep THEN lstrip_sep(Tail(path), sep) ELSE path

\* os.path.normpath of the running platform, for paths without a drive or
\* UNC prefix (posixpath.normpath / ntpath.normpath)
normpath(plat, source) ==
    IF source = <<>> THEN <<".">>
    ELSE LET sep == IF plat = "nt" THEN BS ELSE SL
             path == IF plat = "nt" THEN replace_altsep(source) ELSE source
             rooted == Head(path) = sep
             slashes == IF ~rooted THEN 0
                        ELSE IF plat = "posix" /\ Len(path) >= 2 /\ path[2] = sep
                                /\ ~(Len(path) >= 3 /\ path[3] = sep) THEN 2
                        ELSE 1
             comps == norm_comps(split_path(lstrip_sep(path, sep), sep, <<>>), <<>>, rooted)
             body == join_path(comps, sep)
             prefix == [i \in 1..slashes |-> sep]
         IN IF prefix \o body = <<>> THEN <<".">> ELSE prefix \o body

\* ------------------------------------------------------- breakpoint store
\* Content of the breakpoint definition file: state "absent" (no file),
\* "garbled" (json.load raises) or "parsed"; items is the parsed object as
\* the sequence of its (source_path, lines) entries in file order, an
\* entry with iterable = FALSE holding a value set() cannot iterate.
NoFile == [state |-> "absent", items |-> <<>>]
BpEntry(source_path, lines) ==
    [source_path |-> source_path, iterable |-> TRUE, lines |-> lines]
BpFile(items) == [state |-> "parsed", items |-> items]

BpFiles ==
    { NoFile,
      BpFile(<<>>),
      BpFile(<<BpEntry(P_fwd, {1})>>),
      BpFile(<<BpEntry(P_back, {1, 2})>>) }

\* a file json.load cannot parse, and an entry whose value is not iterable
Garbled == [state |-> "garbled", items |-> <<>>]
BadEntry(source_path) ==
    [source_path |-> source_path, iterable |-> FALSE, lines |-> {}]

\* the definition files the controller writes while it edits breakpoints
StoreFiles ==
    BpFiles \cup { Garbled, BpFile(<<BpEntry(P_other, {1}), BadEntry(P_fwd)>>) }

\* self.breakpoints = {}
NoBreakpoints == [p \in {} |-> {}]

RECURSIVE load_items(_, _, _)
\* for source_path, lines in data.items(): ... ; an exception ends the loop
\* with the entries assigned so far in place
load_items(plat, bps, items) ==
    IF items = <<>> THEN bps
    ELSE LET normalized_path == normpath(plat, Head(items).source_path)
         IN IF ~Head(items).iterable THEN bps
            ELSE load_items(plat,
                            [p \in DOMAIN bps \cup {normalized_path} |->
                                IF p = normalized_path THEN Head(items).lines
                                ELSE bps[p]],
                            Tail(items))

_load_breakpoints(plat, bps, file) ==
    IF file.state = "absent" THEN bps
    ELSE IF file.state = "garbled" THEN bps
    ELSE load_items(plat, bps, file.items)

\* ------------------------------------------------------------------ state
VARIABLES
    platform,        \* which os.path the process runs with
    breakpoint_file, \* content of the breakpoint definition file
    pause_file,      \* TRUE iff the pause marker exists
    step_file,       \* "absent", or the content of the step marker
    breakpoints,     \* self.breakpoints: normalized path -> set of lines
    stepping_mode,   \* self.stepping_mode: "None", "over", "into", "out"
    step_depth,      \* self.step_depth
    current_depth,   \* self.current_depth
    keyword_stack,   \* self.keyword_stack
    in_test,         \* the engine is between start_test and end_test
    pc,              \* engine thread: "run", or in _pause_execution at
                     \* "check" (line 349), "sleep" (350), "unlink" (373),
                     \* "export" (332), "dump" (419), "mark" (342)
    pause_kind,      \* call site that invoked _pause_execution
    poll_count,      \* poll_count % 30
    command,         \* local command of _pause_execution once read
    pause_count,     \* calls of _pause_execution within the current event
    recorder,        \* the test_listener object: a record of its fields
    variable_file    \* the variable snapshot: "absent", "partial" (opened
                     \* for writing, not yet filled) or "written"

vars == <<platform, breakpoint_file, pause_file, step_file, breakpoints,
          stepping_mode, step_depth, current_depth, keyword_stack, in_test,
          pc, pause_kind, poll_count, command, pause_count, recorder,
          variable_file>>

Commands == {"over", "into", "out"}
StepContents == Commands \cup {""}
KwSources == {<<>>, P_fwd, P_back, P_dot, P_other}
KwLines == 0..MaxLine

\* The listener object and the locals of its blocked call, as one record
Self ==
    [breakpoints |-> breakpoints, stepping_mode |-> stepping_mode,
     step_depth |-> step_depth, current_depth |-> current_depth,
     keyword_stack |-> keyword_stack, pc |-> pc, pause_kind |-> pause_kind,
     poll_count |-> poll_count, command |-> command, pause_file |-> pause_file,
     step_file |-> step_file, pause_count |-> pause_count,
     variable_file |-> variable_file]

Becomes(s) ==
    /\ variable_file' = s.variable_file
    /\ breakpoints' = s.breakpoints
    /\ stepping_mode' = s.stepping_mode
    /\ step_depth' = s.step_depth
    /\ current_depth' = s.current_depth
    /\ keyword_stack' = s.keyword_stack
    /\ pc' = s.pc
    /\ pause_kind' = s.pause_kind
    /\ poll_count' = s.poll_count
    /\ command' = s.command
    /\ pause_file' = s.pause_file
    /\ step_file' = s.step_file
    /\ pause_count' = s.pause_count

\* ------------------------------------------------------------- pause gate
\* with open(self.variable_file, 'w', ...): the file is created or emptied
export_open(s, ok) ==
    IF ok THEN [s EXCEPT !.variable_file = "partial"] ELSE s

\* json.dump(variables, f, ...)
export_dump(s, ok) ==
    IF ok THEN [s EXCEPT !.variable_file = "written"] ELSE s

\* _export_variables; any exception is logged and the export given up
_export_variables(s, ok) ==
    IF ok THEN export_dump(export_open(s, TRUE), TRUE) ELSE s

\* variant: the thread enters the loop also when the marker was not written
_pause_execution_ignores_write_error(s, kind, writable) ==
    LET e == _export_variables(s, writable)
    IN [e EXCEPT !.pause_file = IF writable THEN TRUE ELSE @,
                 !.pc = "check", !.pause_kind = kind,
                 !.poll_count = 0, !.pause_count = @ + 1]

\* _pause_execution up to the poll loop: the variables are exported, the
\* pause marker is written and the thread enters the loop; writable tells
\* whether the files of the listener can be written during the event: if
\* not, the export is given up and the call returns at once
_pause_execution(s, kind, writable) ==
    LET e == _export_variables(s, writable)
    IN IF writable
       THEN [e EXCEPT !.pause_file = TRUE, !.pc = "check", !.pause_kind = kind,
                      !.poll_count = 0, !.pause_count = @ + 1]
       ELSE [e EXCEPT !.pause_count = @ + 1]

\* ---------------------------------------------------------- start_keyword
\* self.stepping_mode = None after a step-over / step-into pause
after_step_pause(s) == [s EXCEPT !.stepping_mode = "None"]

\* variant: step-into pauses only below the depth recorded by the last step
step_check_into_needs_depth(s, writable) ==
    IF (s.stepping_mode = "over" /\ s.current_depth = s.step_depth)
    THEN LET p == _pause_execution(s, "over", writable)
         IN IF p.pc = "run" THEN after_step_pause(p) ELSE p
    ELSE IF s.stepping_mode = "into" /\ s.current_depth > s.step_depth
    THEN LET p == _pause_execution(s, "into", writable)
         IN IF p.pc = "run" THEN after_step_pause(p) ELSE p
    ELSE s

\* variant: step-over compares with >= and so pauses inside a deeper call
step_check_over_deeper(s, writable) ==
    IF (s.stepping_mode = "over" /\ s.current_depth >= s.step_depth)
    THEN LET p == _pause_execution(s, "over", writable)
         IN IF p.pc = "run" THEN after_step_pause(p) ELSE p
    ELSE IF s.stepping_mode = "into"
    THEN LET p == _pause_execution(s, "into", writable)
         IN IF p.pc = "run" THEN after_step_pause(p) ELSE p
    ELSE s

\* # Check for stepping
step_check(s, writable) ==
    IF (s.stepping_mode = "over" /\ s.current_depth = s.step_depth)
    THEN LET p == _pause_execution(s, "over", writable)
         IN IF p.pc = "run" THEN after_step_pause(p) ELSE p
    ELSE IF s.stepping_mode = "into"
    THEN LET p == _pause_execution(s, "into", writable)
         IN IF p.pc = "run" THEN after_step_pause(p) ELSE p
    ELSE s

\* variant: no return after the breakpoint pause, the step check follows
after_breakpoint_pause_falls_through(s) == step_check(s, TRUE)

\* variant: the breakpoint pause clears the stepping mode as a step pause does
after_breakpoint_pause_clears_step(s) == [s EXCEPT !.stepping_mode = "None"]

\* variant: the breakpoint is checked again once its pause is over
after_breakpoint_pause_pauses_again(s) == _pause_execution(s, "bp", TRUE)

\* the return that follows the breakpoint pause
after_breakpoint_pause(s) == s

\* variant: any line of a source that has breakpoints matches
is_breakpoint_any_line(plat, bps, source, lineno) ==
    /\ source # <<>>
    /\ lineno > 0
    /\ normpath(plat, source) \in DOMAIN bps

\* normalized_source in self.breakpoints and lineno in self.breakpoints[...]
is_breakpoint(plat, bps, source, lineno) ==
    /\ source # <<>>
    /\ lineno > 0
    /\ LET normalized_source == normpath(plat, source)
       IN /\ normalized_source \in DOMAIN bps
          /\ lineno \in bps[normalized_source]

push_frame(s) ==
    [s EXCEPT !.current_depth = @ + 1,
              !.keyword_stack = Append(@, [depth |-> s.current_depth + 1])]

start_keyword(s, plat, source, lineno, writable) ==
    LET s1 == push_frame(s)
    IN IF is_breakpoint(plat, s1.breakpoints, source, lineno)
       THEN LET p == _pause_execution(s1, "bp", writable)
            IN IF p.pc = "run" THEN after_breakpoint_pause(p) ELSE p
       ELSE step_check(s1, writable)

\* ------------------------------------------------------------ end_keyword
\* variant: no pop when _pause_execution was called during the event
pop_frame_unless_paused(s) ==
    IF s.pause_count > 0 THEN s
    ELSE [s EXCEPT !.keyword_stack = IF @ # <<>> THEN SubSeq(@, 1, Len(@) - 1) ELSE @,
                   !.current_depth = @ - 1]

\* # Pop from stack
pop_frame(s) ==
    [s EXCEPT !.keyword_stack = IF @ # <<>> THEN SubSeq(@, 1, Len(@) - 1) ELSE @,
              !.current_depth = @ - 1]

\* self.stepping_mode = None after the step-out pause, then the rest of
\* end_keyword
after_step_out_pause(s) == pop_frame([s EXCEPT !.stepping_mode = "None"])

\* variant: the step-out target is compared with the depth after the pop
end_keyword_after_pop(s, writable) ==
    IF s.stepping_mode = "out" /\ s.current_depth - 1 = s.step_depth
    THEN LET p == _pause_execution(s, "out", writable)
         IN IF p.pc = "run" THEN after_step_out_pause(p) ELSE p
    ELSE pop_frame(s)

\* variant: the step-out check forgets the stepping mode
end_keyword_ignores_mode(s, writable) ==
    IF s.current_depth = s.step_depth
    THEN LET p == _pause_execution(s, "out", writable)
         IN IF p.pc = "run" THEN after_step_out_pause(p) ELSE p
    ELSE pop_frame(s)

end_keyword(s, writable) ==
    IF s.stepping_mode = "out" /\ s.current_depth = s.step_depth
    THEN LET p == _pause_execution(s, "out", writable)
         IN IF p.pc = "run" THEN after_step_out_pause(p) ELSE p
    ELSE pop_frame(s)

start_test(s) == [s EXCEPT !.keyword_stack = <<>>, !.current_depth = 0]

\* ------------------------------------------------------------ poll loop
\* _pause_execution has returned: its caller goes on from the call site
resume_caller(s, kind) ==
    IF kind = "bp" THEN after_breakpoint_pause(s)
    ELSE IF kind = "out" THEN after_step_out_pause(s)
    ELSE after_step_pause(s)

leave_pause(s) ==
    resume_caller([s EXCEPT !.pc = "run", !.pause_kind = "none",
                            !.poll_count = 0, !.command = "none"],
                  s.pause_kind)

\* variant: the loop gives up after a number of ticks
poll_check_times_out(s) ==
    IF s.pause_file /\ s.poll_count < 5 THEN [s EXCEPT !.pc = "sleep"]
    ELSE leave_pause(s)

\* while self.pause_file.exists():
poll_check(s) ==
    IF s.pause_file THEN [s EXCEPT !.pc = "sleep"] ELSE leave_pause(s)

\* if command == 'over': ... elif 'into': ... elif 'out': ...
apply_command(s, cmd) ==
    IF cmd = "over"
    THEN [s EXCEPT !.stepping_mode = "over", !.step_depth = s.current_depth]
    ELSE IF cmd = "into"
    THEN [s EXCEPT !.stepping_mode = "into"]
    ELSE IF cmd = "out"
    THEN [s EXCEPT !.stepping_mode = "out", !.step_depth = s.current_depth - 1]
    ELSE s

\* one pass of the loop body up to the unlink: sleep, count, reload every
\* PollReload ticks, read and apply the step marker if there is one
poll_body(s, plat, file) ==
    LET n == (s.poll_count + 1) % PollReload
        s1 == [s EXCEPT !.poll_count = n,
                        !.breakpoints = IF n = 0
                                        THEN _load_breakpoints(plat, @, file)
                                        ELSE @]
    IN IF s1.step_file = "absent"
       THEN [s1 EXCEPT !.pc = "check"]
       ELSE [apply_command(s1, s1.step_file) EXCEPT !.command = s1.step_file,
                                                    !.pc = "unlink"]

\* variant: break without unlinking the step marker
poll_unlink_keeps_marker(s) ==
    IF s.step_file # "absent"
    THEN leave_pause(s)
    ELSE [s EXCEPT !.pc = "check", !.command = "none"]

\* self.step_file.unlink(); break -- or the except branch when the marker
\* is gone, after which the loop goes on
poll_unlink(s) ==
    IF s.step_file # "absent"
    THEN leave_pause([s EXCEPT !.step_file = "absent"])
    ELSE [s EXCEPT !.pc = "check", !.command = "none"]

\* ------------------------------------------------------- failure recorder
TestNames == {"T", "U"}
KwNames == {"A", "B"}
\* attributes["source"]: "" when the engine reports no source
RecSources == {"", "r"}
Messages == {"", "boom"}
Statuses == {"PASS", "FAIL"}
Levels == {"FAIL", "INFO"}

RECURSIVE str(_)
\* str(n) of an f-string, n >= 0
str(n) ==
    IF n < 10
    THEN <<"0", "1", "2", "3", "4", "5", "6", "7", "8", "9">>[n + 1]
    ELSE str(n \div 10) \o str(n % 10)

\* f"{name}_{n}"
stack_key(name, n) == name \o "_" \o str(n)

\* test_listener.__init__
new_recorder ==
    [failed_keywords |-> <<>>, last_fail_message |-> "None",
     test_results |-> [n \in {} |-> {}], current_test |-> "None",
     _keyword_stack |-> <<>>, _current_depth |-> 0,
     call_stacks |-> [k \in {} |-> <<>>]]

\* x or y
or_else(x, y) == IF x = "None" \/ x = "" THEN y ELSE x

rec_start_test(r, name) ==
    [r EXCEPT !.current_test = name, !.failed_keywords = <<>>,
              !.last_fail_message = "None",
              !._keyword_stack = <<>>, !._current_depth = 0]

rec_end_test(r, name, status, message) ==
    LET test_result == [name |-> name, status |-> status, message |-> message,
                        failed_keywords |-> r.failed_keywords]
        key == stack_key(name, 0)
        linked == IF status = "FAIL" /\ r.failed_keywords # <<>>
                     /\ key \in DOMAIN r.call_stacks
                  THEN test_result @@ [stack_trace_key |-> key]
                  ELSE test_result
    IN [r EXCEPT !.test_results = [n \in DOMAIN @ \cup {name} |->
                                      IF n = name THEN linked ELSE @[n]],
                 !.current_test = "None", !.failed_keywords = <<>>]

rec_log_message(r, level, message) ==
    IF level = "FAIL" THEN [r EXCEPT !.last_fail_message = message] ELSE r

rec_start_keyword(r, name, source) ==
    [r EXCEPT !._current_depth = @ + 1,
              !._keyword_stack = Append(@, [name |-> name, source |-> source,
                                            depth |-> r._current_depth + 1])]

\* variant: the suffix of the key counts the failures of the current test
capture_call_stack_per_test(r, name, source, message) ==
    IF r.current_test = "None" THEN r
    ELSE LET failure_point ==
                 [name |-> name, source |-> source, depth |-> r._current_depth,
                  is_failure_point |-> TRUE,
                  message |-> or_else(r.last_fail_message, message),
                  status |-> "FAIL"]
             call_stack == Append(r._keyword_stack, failure_point)
             key == stack_key(r.current_test, Len(r.failed_keywords) - 1)
         IN [r EXCEPT !.call_stacks = [k \in DOMAIN @ \cup {key} |->
                                          IF k = key THEN call_stack ELSE @[k]]]

\* # NEW FORMAT: Capture full call stack with failure point
capture_call_stack(r, name, source, message) ==
    IF r.current_test = "None" THEN r
    ELSE LET failure_point ==
                 [name |-> name, source |-> source, depth |-> r._current_depth,
                  is_failure_point |-> TRUE,
                  message |-> or_else(r.last_fail_message, message),
                  status |-> "FAIL"]
             call_stack == Append(r._keyword_stack, failure_point)
             key == stack_key(r.current_test, Cardinality(DOMAIN r.call_stacks))
         IN [r EXCEPT !.call_stacks = [k \in DOMAIN @ \cup {key} |->
                                          IF k = key THEN call_stack ELSE @[k]]]

\* # Pop from stack (whether PASS or FAIL)
rec_pop(r) ==
    [r EXCEPT !._keyword_stack = IF @ # <<>> THEN SubSeq(@, 1, Len(@) - 1) ELSE @,
              !._current_depth = @ - 1]

rec_end_keyword(r, name, status, source, message) ==
    IF status = "FAIL" /\ source # ""
    THEN LET keyword_info == [name |-> name, source |-> source, status |-> status,
                              message |-> or_else(r.last_fail_message, "")]
             r1 == [r EXCEPT !.failed_keywords = Append(@, keyword_info)]
         IN rec_pop(capture_call_stack(r1, name, source, message))
    ELSE rec_pop(r)

\* ---------------------------------------------------------------- actions
Init ==
    /\ platform \in Platforms
    /\ breakpoint_file \in BpFiles
    /\ pause_file = FALSE
    /\ step_file = "absent"
    /\ breakpoints = _load_breakpoints(platform, NoBreakpoints, breakpoint_file)
    /\ stepping_mode = "None"
    /\ step_depth = 0
    /\ current_depth = 0
    /\ keyword_stack = <<>>
    /\ in_test = FALSE
    /\ pc = "run"
    /\ pause_kind = "none"
    /\ poll_count = 0
    /\ command = "none"
    /\ pause_count = 0
    /\ recorder = new_recorder
    /\ variable_file = "absent"

Env == UNCHANGED <<platform, breakpoint_file, recorder>>

StartTest ==
    /\ pc = "run" /\ ~in_test /\ current_depth = 0
    /\ in_test' = TRUE
    /\ Becomes(start_test([Self EXCEPT !.pause_count = 0]))
    /\ Env

EndTest ==
    /\ pc = "run" /\ in_test /\ current_depth = 0
    /\ in_test' = FALSE
    /\ Becomes([Self EXCEPT !.pause_count = 0])
    /\ Env

\* the engine starts a keyword located at (source, lineno); writable tells
\* whether the pause marker can be written during this event
StartKeywordWith(source, lineno, writable) ==
    /\ pc = "run" /\ current_depth < MaxDepth
    /\ Becomes(start_keyword([Self EXCEPT !.pause_count = 0], platform,
                             source, lineno, writable))
    /\ UNCHANGED in_test
    /\ Env

StartKeyword ==
    \E source \in KwSources, lineno \in KwLines, writable \in BOOLEAN :
        StartKeywordWith(source, lineno, writable)

EndKeywordWith(writable) ==
    /\ pc = "run" /\ current_depth > 0
    /\ Becomes(end_keyword([Self EXCEPT !.pause_count = 0], writable))
    /\ UNCHANGED in_test
    /\ Env

EndKeyword == \E writable \in BOOLEAN : EndKeywordWith(writable)

PollCheck ==
    /\ pc = "check"
    /\ Becomes(poll_check(Self))
    /\ UNCHANGED in_test
    /\ Env

PollBody ==
    /\ pc = "sleep"
    /\ Becomes(poll_body(Self, platform, breakpoint_file))
    /\ UNCHANGED in_test
    /\ Env

PollUnlink ==
    /\ pc = "unlink"
    /\ Becomes(poll_unlink(Self))
    /\ UNCHANGED in_test
    /\ Env

\* the controller removes the pause marker: continue
CtlRemovePause ==
    /\ pause_file
    /\ pause_file' = FALSE
    /\ UNCHANGED <<platform, breakpoint_file, step_file, breakpoints, stepping_mode,
                   step_depth, current_depth, keyword_stack, in_test, pc,
                   pause_kind, poll_count, command, pause_count, recorder,
          variable_file>>

\* the controller writes the step marker; "" is the marker created and not
\* yet filled
CtlWriteStep ==
    /\ \E c \in StepContents : step_file' = c /\ step_file # c
    /\ UNCHANGED <<platform, breakpoint_file, pause_file, breakpoints, stepping_mode,
                   step_depth, current_depth, keyword_stack, in_test, pc,
                   pause_kind, poll_count, command, pause_count, recorder,
          variable_file>>

CtlDeleteStep ==
    /\ step_file # "absent"
    /\ step_file' = "absent"
    /\ UNCHANGED <<platform, breakpoint_file, pause_file, breakpoints, stepping_mode,
                   step_depth, current_depth, keyword_stack, in_test, pc,
                   pause_kind, poll_count, command, pause_count, recorder,
          variable_file>>

Next ==
    \/ StartTest
    \/ EndTest
    \/ StartKeyword
    \/ EndKeyword
    \/ PollCheck
    \/ PollBody
    \/ PollUnlink
    \/ CtlRemovePause
    \/ CtlWriteStep
    \/ CtlDeleteStep

Spec == Init /\ [][Next]_vars

\* ------------------------------------------- the definition file is edited
\* A run in which the controller edits the breakpoint definition file while
\* the engine is blocked and the pause marker is there, and resumes the
\* engine by removing the marker; it writes no step marker, so the poll
\* loop never reaches its unlink.
StoreInit ==
    /\ platform \in Platforms
    /\ breakpoint_file \in StoreFiles
    /\ pause_file = FALSE
    /\ step_file = "absent"
    /\ breakpoints = _load_breakpoints(platform, NoBreakpoints, breakpoint_file)
    /\ stepping_mode = "None"
    /\ step_depth = 0
    /\ current_depth = 0
    /\ keyword_stack = <<>>
    /\ in_test = FALSE
    /\ pc = "run"
    /\ pause_kind = "none"
    /\ poll_count = 0
    /\ command = "none"
    /\ pause_count = 0
    /\ recorder = new_recorder
    /\ variable_file = "absent"

\* the controller rewrites, garbles or deletes the definition file
CtlWriteBreakpoints ==
    /\ pc # "run" /\ pause_file
    /\ \E file \in StoreFiles : breakpoint_file' = file /\ breakpoint_file # file
    /\ UNCHANGED <<platform, pause_file, step_file, breakpoints, stepping_mode,
                   step_depth, current_depth, keyword_stack, in_test, pc,
                   pause_kind, poll_count, command, pause_count, recorder,
          variable_file>>

StoreNext ==
    \/ StartTest
    \/ EndTest
    \/ StartKeyword
    \/ EndKeyword
    \/ PollCheck
    \/ PollBody
    \/ CtlRemovePause
    \/ CtlWriteBreakpoints

StoreSpec == StoreInit /\ [][StoreNext]_vars

\* -------------------------------------------- the failure recorder's run
\* The engine's events as test_listener receives them: test T and then
\* test U, each once, keywords well nested, inside or outside a test, a
\* keyword ending with the name and source it started with.  The debug
\* listener takes no part.
Debugger == <<platform, breakpoint_file, pause_file, step_file, breakpoints,
              stepping_mode, step_depth, current_depth, keyword_stack, in_test,
              pc, pause_kind, poll_count, command, pause_count,
              variable_file>>

RecorderInit == Init /\ platform = "posix" /\ breakpoint_file = NoFile

RecStartTest ==
    /\ recorder.current_test = "None" /\ recorder._current_depth = 0
    /\ \E name \in TestNames :
          /\ name \notin DOMAIN recorder.test_results
          /\ name = "U" => "T" \in DOMAIN recorder.test_results
          /\ recorder' = rec_start_test(recorder, name)
    /\ UNCHANGED Debugger

\* a test ends; the engine's message is that of the failure, if any
RecEndTest ==
    /\ recorder.current_test # "None" /\ recorder._current_depth = 0
    /\ \E status \in Statuses :
          recorder' = rec_end_test(recorder, recorder.current_test, status,
                                   IF status = "FAIL" THEN "boom" ELSE "")
    /\ UNCHANGED Debugger

RecLogMessage ==
    /\ \E level \in Levels :
          recorder' = rec_log_message(recorder, level, "boom")
    /\ UNCHANGED Debugger

RecStartKeyword ==
    /\ recorder._current_depth < MaxNesting
    /\ \E name \in KwNames, source \in RecSources :
          recorder' = rec_start_keyword(recorder, name, source)
    /\ UNCHANGED Debugger

\* the innermost keyword ends with the given status and message
RecEndKeywordWith(status, message) ==
    /\ recorder._keyword_stack # <<>>
    /\ status = "FAIL" =>
          /\ Len(recorder.failed_keywords) < MaxFailures
          /\ Cardinality(DOMAIN recorder.call_stacks) < MaxFailures
    /\ LET top == recorder._keyword_stack[Len(recorder._keyword_stack)]
       IN recorder' = rec_end_keyword(recorder, top.name, status, top.source, message)
    /\ UNCHANGED Debugger

RecEndKeyword ==
    \E status \in Statuses, message \in Messages : RecEndKeywordWith(status, message)

RecorderNext ==
    \/ RecStartTest
    \/ RecEndTest
    \/ RecLogMessage
    \/ RecStartKeyword
    \/ RecEndKeyword

RecorderSpec == RecorderInit /\ [][RecorderNext]_vars

\* the debug listener as constructed, definition file absent
DebuggerAtStart ==
    /\ platform = "posix" /\ breakpoint_file = NoFile
    /\ ~pause_file /\ step_file = "absent" /\ breakpoints = NoBreakpoints
    /\ stepping_mode = "None" /\ step_depth = 0
    /\ current_depth = 0 /\ keyword_stack = <<>> /\ ~in_test
    /\ pc = "run" /\ pause_kind = "none" /\ poll_count = 0
    /\ command = "none" /\ pause_count = 0
    /\ variable_file = "absent"

\* ------------------------------------------------ events in any order
\* The callbacks of either listener invoked in any order: a test may start
\* while keywords are open or while another test is current, under a name
\* used before, and a keyword may end that never started.  Keywords are
\* named A with source r, the definition file is absent, no marker is
\* written.  The listeners share no state; a run drives one of them, the
\* other staying as constructed.
AnyStartTest ==
    /\ recorder = new_recorder
    /\ pc = "run"
    /\ in_test' = TRUE
    /\ Becomes(start_test([Self EXCEPT !.pause_count = 0]))
    /\ Env

AnyEndTest ==
    /\ recorder = new_recorder
    /\ pc = "run" /\ in_test
    /\ in_test' = FALSE
    /\ Becomes([Self EXCEPT !.pause_count = 0])
    /\ Env

AnyStartKeyword == recorder = new_recorder /\ StartKeyword

\* end_keyword, also with no keyword open
AnyEndKeyword ==
    /\ recorder = new_recorder
    /\ pc = "run" /\ current_depth >= 0
    /\ \E writable \in BOOLEAN :
          Becomes(end_keyword([Self EXCEPT !.pause_count = 0], writable))
    /\ UNCHANGED in_test
    /\ Env

AnyRecStartTest ==
    /\ DebuggerAtStart
    /\ \E name \in TestNames : recorder' = rec_start_test(recorder, name)
    /\ UNCHANGED Debugger

\* the test ends with status FAIL if a keyword failure is listed for it
AnyRecEndTest ==
    /\ DebuggerAtStart
    /\ recorder.current_test # "None"
    /\ recorder' = IF recorder.failed_keywords # <<>>
                   THEN rec_end_test(recorder, recorder.current_test,
                                     "FAIL", "boom")
                   ELSE rec_end_test(recorder, recorder.current_test,
                                     "PASS", "")
    /\ UNCHANGED Debugger

AnyRecStartKeyword ==
    /\ DebuggerAtStart
    /\ recorder._current_depth < MaxNesting
    /\ recorder' = rec_start_keyword(recorder, "A", "r")
    /\ UNCHANGED Debugger

\* end_keyword of keyword A with the given status, also with no keyword open
AnyRecEndKeywordWith(status) ==
    /\ DebuggerAtStart
    /\ recorder._current_depth >= 0
    /\ status = "FAIL" =>
          /\ Len(recorder.failed_keywords) < MaxFailures
          /\ Cardinality(DOMAIN recorder.call_stacks) < MaxFailures
    /\ recorder' = rec_end_keyword(recorder, "A", status, "r", "boom")
    /\ UNCHANGED Debugger

AnyRecEndKeyword == \E status \in Statuses : AnyRecEndKeywordWith(status)

AnyOrderNext ==
    \/ AnyStartTest
    \/ AnyEndTest
    \/ AnyStartKeyword
    \/ AnyEndKeyword
    \/ AnyRecStartTest
    \/ AnyRecEndTest
    \/ AnyRecStartKeyword
    \/ AnyRecEndKeyword

AnyOrderSpec == RecorderInit /\ [][AnyOrderNext]_vars

\* ------------------------------------------------ both listeners
\* A run with the debug listener or with the failure recorder attached,
\* events well nested, on posix; the recorder sees tests of either name in
\* any number and keywords named A with source r.  The listeners share no
\* state: each keeps its own depth and stack and neither reads the other's
\* files, so a run drives one of them while the other stays as constructed.
DebuggerRuns == recorder = new_recorder

TrackersInit == Init /\ platform = "posix"

NestedRecStartTest ==
    /\ recorder.current_test = "None" /\ recorder._current_depth = 0
    /\ AnyRecStartTest

NestedRecEndTest == recorder._current_depth = 0 /\ AnyRecEndTest

NestedRecEndKeyword == recorder._keyword_stack # <<>> /\ AnyRecEndKeyword

TrackersNext ==
    \/ DebuggerRuns /\ StartTest
    \/ DebuggerRuns /\ EndTest
    \/ DebuggerRuns /\ StartKeyword
    \/ DebuggerRuns /\ EndKeyword
    \/ DebuggerRuns /\ PollCheck
    \/ DebuggerRuns /\ PollBody
    \/ DebuggerRuns /\ PollUnlink
    \/ DebuggerRuns /\ CtlRemovePause
    \/ DebuggerRuns /\ CtlWriteStep
    \/ DebuggerRuns /\ CtlDeleteStep
    \/ NestedRecStartTest
    \/ NestedRecEndTest
    \/ AnyRecStartKeyword
    \/ NestedRecEndKeyword

TrackersSpec == TrackersInit /\ [][TrackersNext]_vars

\* ------------------------------------------------ pause entry in steps
\* _pause_execution taken statement by statement up to the poll loop, the
\* controller free to look at the files in between: the call is entered
\* ("export"), the snapshot file is opened ("dump"), filled ("mark"), and
\* the pause marker is written ("check").  The export may fail at either
\* statement, whatever becomes of the marker.

\* the state in which an event that pauses stands at line 332: all of the
\* handler up to its call of _pause_execution is done, no file is touched
hold_at_export(s, p) ==
    IF p.pc = "check"
    THEN [p EXCEPT !.pc = "export", !.pause_file = s.pause_file,
                   !.variable_file = s.variable_file]
    ELSE p

\* self.pause_file.write_text(reason), or the return of line 345
write_marker(s, writable) ==
    IF writable
    THEN [s EXCEPT !.pause_file = TRUE, !.pc = "check", !.poll_count = 0]
    ELSE leave_pause(s)

SnapStartKeyword ==
    /\ pc = "run" /\ current_depth < MaxDepth
    /\ \E source \in KwSources, lineno \in KwLines :
          Becomes(hold_at_export(Self,
                      start_keyword([Self EXCEPT !.pause_count = 0], platform,
                                    source, lineno, TRUE)))
    /\ UNCHANGED in_test
    /\ Env

SnapEndKeyword ==
    /\ pc = "run" /\ current_depth > 0
    /\ Becomes(hold_at_export(Self,
                    end_keyword([Self EXCEPT !.pause_count = 0], TRUE)))
    /\ UNCHANGED in_test
    /\ Env

ExportOpen ==
    /\ pc = "export"
    /\ \E ok \in BOOLEAN :
          Becomes([export_open(Self, ok) EXCEPT
                      !.pc = IF ok THEN "dump" ELSE "mark"])
    /\ UNCHANGED in_test
    /\ Env

ExportDump ==
    /\ pc = "dump"
    /\ \E ok \in BOOLEAN :
          Becomes([export_dump(Self, ok) EXCEPT !.pc = "mark"])
    /\ UNCHANGED in_test
    /\ Env

WriteMarker ==
    /\ pc = "mark"
    /\ \E writable \in BOOLEAN : Becomes(write_marker(Self, writable))
    /\ UNCHANGED in_test
    /\ Env

SnapshotNext ==
    \/ StartTest
    \/ EndTest
    \/ SnapStartKeyword
    \/ SnapEndKeyword
    \/ ExportOpen
    \/ ExportDump
    \/ WriteMarker
    \/ PollCheck
    \/ PollBody
    \/ PollUnlink
    \/ CtlRemovePause
    \/ CtlWriteStep
    \/ CtlDeleteStep

SnapshotSpec == Init /\ [][SnapshotNext]_vars

\* ------------------------------------------------ unattended pauses
\* The controller touches the markers only while the engine runs and
\* leaves every pause alone.
EarlyRemovePause == pc = "run" /\ CtlRemovePause

EarlyWriteStep == pc = "run" /\ CtlWriteStep

EarlyDeleteStep == pc = "run" /\ CtlDeleteStep

UnattendedNext ==
    \/ StartTest
    \/ EndTest
    \/ StartKeyword
    \/ EndKeyword
    \/ PollCheck
    \/ PollBody
    \/ PollUnlink
    \/ EarlyRemovePause
    \/ EarlyWriteStep
    \/ EarlyDeleteStep

UnattendedSpec == Init /\ [][UnattendedNext]_vars


\* ------------------------------------------------------------- properties
Paused == pc # "run"

\* (normalized source, lineno) is a pair of the in-memory breakpoint set
InBreakpointSet(source, lineno) ==
    \E p \in DOMAIN breakpoints :
        lineno \in breakpoints[p] /\ p = normpath(platform, source)

\* the keyword-start at (source, lineno) hits a breakpoint
BreakpointHit(source, lineno) ==
    source # <<>> /\ lineno > 0 /\ InBreakpointSet(source, lineno)

\* this step is a start_keyword event / an end_keyword event
KeywordStarts == pc = "run" /\ current_depth' = current_depth + 1
KeywordEnds ==
    /\ pc = "run"
    /\ \/ current_depth' = current_depth - 1
       \/ pc' = "check" /\ pause_kind' = "out"

\* _pause_execution returns to its caller in this step
PauseEnds == Paused /\ pc' = "run"

\* the poll loop reads the step marker in this step, finding a command
ReadsCommand == pc = "sleep" /\ pc' = "unlink" /\ step_file \in Commands

\* the step marker is unlinked and the loop left in this step, the command
\* read from it being one of over, into, out
ConsumesCommand == pc = "unlink" /\ step_file # "absent" /\ command \in Commands

\* C1: a step command consumed during any pause, breakpoint or step
\* triggered, is the StepState with which the engine resumes: over gives
\* StepOver(currentDepth), into StepInto, out StepOut(currentDepth - 1).
C1_StepCommandSurvivesResume ==
    [][ConsumesCommand =>
          /\ stepping_mode' = command
          /\ (command = "over" => step_depth' = current_depth)
          /\ (command = "out" => step_depth' = current_depth - 1)]_vars

\* C2: with StepInto pending the very next keyword-start calls the pause
\* gate, whatever its depth, and the engine blocks there once the marker is
\* written; events before that keyword-start leave StepInto pending.
C2_StepIntoPausesNextKeywordStart ==
    [][/\ (KeywordStarts /\ stepping_mode = "into") =>
          \A source \in KwSources, lineno \in KwLines, writable \in BOOLEAN :
            StartKeywordWith(source, lineno, writable) =>
                /\ pause_count' = 1
                /\ IF writable
                   THEN pc' = "check" /\ pause_file' /\ pause_kind' \in {"bp", "into"}
                   ELSE pc' = "run"
       /\ (/\ pc = "run" /\ stepping_mode = "into"
           /\ current_depth' # current_depth + 1) =>
                stepping_mode' = "into" /\ pc' = "run"]_vars

C2_Witness ==
    pc = "check" /\ pause_kind = "into" /\ current_depth = MaxDepth /\ pause_file

\* C3: with StepOver(D) pending and no breakpoint hit, a keyword-start at a
\* depth greater than D does not pause and leaves StepOver(D) pending; a
\* keyword-start at depth D pauses, and StepState is Idle once that pause
\* is over.
C3_StepOverPausesAtSameDepth ==
    [][/\ (KeywordStarts /\ stepping_mode = "over") =>
          \A source \in KwSources, lineno \in KwLines, writable \in BOOLEAN :
            (/\ StartKeywordWith(source, lineno, writable)
             /\ ~BreakpointHit(source, lineno)) =>
                /\ current_depth' > step_depth =>
                      /\ pause_count' = 0 /\ pc' = "run"
                      /\ stepping_mode' = "over" /\ step_depth' = step_depth
                /\ current_depth' = step_depth =>
                      /\ pause_count' = 1
                      /\ IF writable
                         THEN pc' = "check" /\ pause_kind' = "over" /\ pause_file'
                         ELSE pc' = "run" /\ stepping_mode' = "None"
       /\ (PauseEnds /\ pause_kind = "over") => stepping_mode' = "None"]_vars

C3_Witness ==
    /\ pc = "check" /\ pause_kind = "over" /\ pause_file
    /\ stepping_mode = "over" /\ current_depth = step_depth

\* C4: with StepOver(D) pending, a keyword-start at depth D or at a
\* shallower depth pauses.
C4_StepOverPausesAtShallowerDepth ==
    [][(KeywordStarts /\ stepping_mode = "over" /\ current_depth' <= step_depth) =>
          pause_count' = 1]_vars

C4_Witness ==
    pc = "run" /\ stepping_mode = "over" /\ current_depth < step_depth

C6_BreakpointFirstOnePausePerEvent ==
    [][/\ KeywordStarts =>
          \A source \in KwSources, lineno \in KwLines :
            BreakpointHit(source, lineno) =>
              \A writable \in BOOLEAN :
                StartKeywordWith(source, lineno, writable) =>
                    /\ pause_count' = 1
                    /\ stepping_mode' = stepping_mode /\ step_depth' = step_depth
                    /\ IF writable THEN pc' = "check" /\ pause_kind' = "bp"
                       ELSE pc' = "run"
       /\ (Paused /\ pause_kind = "bp"
           /\ (stepping_mode' # stepping_mode \/ step_depth' # step_depth)) =>
                ReadsCommand
       /\ (PauseEnds /\ pause_kind = "bp") => pause_count' = 1
       /\ pause_count' <= 1]_vars

C6_Witness ==
    /\ pc = "check" /\ pause_kind = "bp" /\ pause_count = 1
    /\ stepping_mode = "over" /\ current_depth = step_depth

\* a pause called from a step check ends in this step, blocked or not
StepPauseEnds ==
    \/ PauseEnds /\ pause_kind \in Commands
    \/ pc = "run" /\ pc' = "run" /\ pause_count' = 1 /\ stepping_mode \in Commands

\* C7: stepping_mode and step_depth change only when a step command is
\* read during a pause, or, stepping_mode alone and to None, at the end of
\* a pause that a step check called.
C7_StepStateChangesOnlyByCommandOrReset ==
    [][(stepping_mode' # stepping_mode \/ step_depth' # step_depth) =>
          \/ ReadsCommand
          \/ /\ StepPauseEnds
             /\ stepping_mode' = "None" /\ step_depth' = step_depth]_vars

C7_Witness ==
    /\ pc = "run" /\ in_test /\ pause_count = 0
    /\ stepping_mode = "over" /\ current_depth > step_depth

\* C8: with stepping_mode None no keyword-end calls the pause gate, and a
\* keyword-start calls it only if (normalized source, lineno) is in the
\* in-memory breakpoint set.
C8_IdleNeverPausesByItself ==
    [][/\ (KeywordEnds /\ stepping_mode = "None") =>
            pause_count' = 0 /\ pc' = "run"
       /\ (KeywordStarts /\ stepping_mode = "None"
           /\ (pause_count' > 0 \/ pc' # "run")) =>
          \A source \in KwSources, lineno \in KwLines, writable \in BOOLEAN :
            StartKeywordWith(source, lineno, writable) =>
                InBreakpointSet(source, lineno)]_vars

C8_Witness ==
    pc = "check" /\ pause_kind = "bp" /\ stepping_mode = "None" /\ pause_file

\* C9: a blocked engine thread stays blocked over every step taken while
\* the pause marker exists and no step marker does.
C9_PauseNeverReturnsOnItsOwn ==
    [][(Paused /\ pause_file /\ step_file = "absent") => pc' # "run"]_vars

C9_Witness ==
    /\ pc = "check" /\ poll_count = PollReload - 1
    /\ pause_file /\ step_file = "absent"

\* steps of the poll loop the engine thread still has to take, at most,
\* before _pause_execution returns once the pause marker is gone
PollStepsLeft ==
    IF pc = "sleep" THEN 3 ELSE IF pc = "unlink" THEN 2
    ELSE IF pc = "check" THEN 1 ELSE 0

\* C10: once the pause marker is gone the blocked engine resumes: it is at
\* a place of its poll loop, whose steps have no other guard, each such step
\* brings the return nearer
\* and the marker does not come back meanwhile, so that fair polling
\* resumes the engine within three steps.  While no step marker exists a
\* breakpoint pause leaves StepState as it is; when it ends by marker
\* removal the keyword-start is not paused again, and a breakpoint pause
\* begins only at a keyword-start located at a breakpoint.
C10_MarkerRemovalIsPlainContinue ==
    [][/\ (Paused /\ ~pause_file) =>
            /\ pc \in {"check", "sleep", "unlink"}
            /\ pc' # pc => PollStepsLeft' < PollStepsLeft
            /\ ~pause_file'
       /\ (Paused /\ pause_kind = "bp" /\ step_file = "absent") =>
            stepping_mode' = stepping_mode /\ step_depth' = step_depth
       /\ (pc = "check" /\ pc' # "check" /\ ~pause_file /\ pause_kind = "bp") =>
            /\ pc' = "run" /\ pause_count' = 1
            /\ current_depth' = current_depth
       /\ (pc = "run" /\ pc' = "check" /\ pause_kind' = "bp") =>
            \E source \in KwSources, lineno \in KwLines :
               /\ BreakpointHit(source, lineno)
               /\ StartKeywordWith(source, lineno, TRUE)]_vars

C10_Witness ==
    /\ pc = "check" /\ pause_kind = "bp" /\ ~pause_file /\ step_file = "absent"
    /\ stepping_mode = "over"

\* the engine thread takes a step of its poll loop
PollStep == Paused /\ pc' # pc

\* C11: a step marker holding over, into or out that a poll tick finds is
\* read and applied in that tick, and the same tick, the marker still being
\* there, unlinks it and ends the pause; a pause that ends from the unlink
\* leaves no step marker behind, and the engine removes the marker in no
\* other step, so that a marker ends one pause only.
C11_StepCommandConsumedOnce ==
    [][/\ (pc = "sleep" /\ PollStep /\ step_file \in Commands) =>
            /\ pc' = "unlink" /\ command' = step_file
            /\ stepping_mode' = step_file
            /\ (step_file = "over" => step_depth' = current_depth)
            /\ (step_file = "out" => step_depth' = current_depth - 1)
            /\ step_file' = step_file
       /\ (pc = "unlink" /\ PollStep /\ step_file # "absent") =>
            pc' = "run" /\ step_file' = "absent"
       /\ (PauseEnds /\ pc = "unlink") => step_file' = "absent"
       /\ (PollStep /\ step_file' # step_file) =>
            pc = "unlink" /\ pc' = "run" /\ step_file' = "absent"
       /\ (~Paused /\ (pc' # pc \/ current_depth' # current_depth
                        \/ in_test' # in_test)) =>
            step_file' = step_file]_vars

C11_Witness ==
    /\ pc = "run" /\ pause_count = 1 /\ pause_file /\ step_file = "absent"
    /\ stepping_mode = "out" /\ step_depth = current_depth - 1

\* C12: whenever the pause marker exists the engine thread is blocked in
\* _pause_execution; no keyword runs while the marker is present.
C12_PauseMarkerMeansBlocked == pause_file => Paused

C12_Witness == pc = "run" /\ pause_file /\ pause_count = 1 /\ current_depth > 0

\* C13: a poll tick that reads the step marker before its content is one
\* of over, into, out neither ends the pause nor removes the marker: the
\* loop goes on polling.
C13_IncompleteCommandIsRepolled ==
    [][(pc = "unlink" /\ PollStep /\ command \notin Commands) =>
            pc' # "run" /\ step_file' = step_file]_vars

C13_Witness ==
    pc = "unlink" /\ command = "" /\ step_file = "" /\ pause_file

\* the step check of a keyword-start observed at depth d asks for a pause
StepDue(d) ==
    \/ stepping_mode = "over" /\ d = step_depth
    \/ stepping_mode = "into"

\* C14: a keyword-start that carries a source and a line number calls the
\* pause gate as a breakpoint pause, once, exactly when (normalized source,
\* lineno) is a pair of the in-memory breakpoint set; at any other line of
\* that source and at that line of any other source the pause gate is
\* called only if the step check asks for it, and then as a step pause.
C14_BreakpointPauseIffExactPair ==
    [][KeywordStarts =>
          \A source \in KwSources, lineno \in KwLines :
            IF BreakpointHit(source, lineno)
            THEN \A writable \in BOOLEAN :
                   \/ /\ pause_count' = 1
                      /\ writable => pc' = "check" /\ pause_kind' = "bp"
                   \/ ~StartKeywordWith(source, lineno, writable)
            ELSE \/ /\ pause_count' <= 1
                    /\ pause_kind' # "bp"
                    /\ pause_count' = 1 <=> StepDue(current_depth')
                    /\ stepping_mode = "None" => pc' = "run"
                 \/ \A writable \in BOOLEAN :
                       ~StartKeywordWith(source, lineno, writable)]_vars

C14_Witness ==
    /\ pc = "check" /\ pause_kind = "bp" /\ pause_count = 1 /\ current_depth = 2
    /\ \E p \in DOMAIN breakpoints : breakpoints[p] = {1}

\* the definition file declares a breakpoint at line lineno of source_path
Declared(source_path, lineno) ==
    /\ breakpoint_file.state = "parsed"
    /\ \E i \in 1..Len(breakpoint_file.items) :
          /\ breakpoint_file.items[i].source_path = source_path
          /\ breakpoint_file.items[i].iterable
          /\ lineno \in breakpoint_file.items[i].lines

\* C15: a breakpoint that the definition file, loaded at start-up, declares
\* for a/b in either separator style pauses a keyword-start whose source
\* names a/b in either style.
C15_SeparatorStyleIndependent ==
    [][KeywordStarts =>
          \A lineno \in KwLines :
            (lineno > 0 /\ \E written \in {P_fwd, P_back} : Declared(written, lineno)) =>
              \A source \in {P_fwd, P_back}, writable \in BOOLEAN :
                StartKeywordWith(source, lineno, writable) => pause_count' = 1]_vars

C15_Witness ==
    /\ platform = "posix" /\ pc = "run" /\ current_depth = 1 /\ pause_count = 0
    /\ stepping_mode = "None" /\ P_back \in DOMAIN breakpoints

\* the poll tick of this step is one that calls _load_breakpoints
ReloadStep == pc = "sleep" /\ PollStep /\ poll_count = PollReload - 1

\* every entry of the parsed definition file maps a path to a list of lines
WellFormed ==
    /\ breakpoint_file.state = "parsed"
    /\ \A i \in 1..Len(breakpoint_file.items) : breakpoint_file.items[i].iterable

\* the content of a well-formed definition file, paths normalized, a later
\* entry of a path standing for an earlier one
NormalizedContent ==
    LET items == breakpoint_file.items
        key(i) == normpath(platform, items[i].source_path)
    IN [p \in {key(i) : i \in 1..Len(items)} |->
           items[CHOOSE i \in 1..Len(items) :
                    key(i) = p /\ \A j \in (i + 1)..Len(items) : key(j) # p].lines]

\* C16: after a reload of a well-formed definition file the in-memory set
\* is the normalized content of the file, and after a reload that finds no
\* file it is empty.
C16_ReloadReplacesSet ==
    [][ReloadStep =>
          /\ WellFormed => breakpoints' = NormalizedContent
          /\ breakpoint_file.state = "absent" => breakpoints' = NoBreakpoints]_vars

C16_Witness ==
    /\ pc = "check" /\ poll_count = 0 /\ pause_file /\ WellFormed
    /\ breakpoints # NormalizedContent

\* C17: a reload of a definition file that does not parse, or that parses
\* and holds an invalid entry, leaves the in-memory set as it was.
C17_FailedLoadKeepsSet ==
    [][(ReloadStep /\ breakpoint_file.state # "absent" /\ ~WellFormed) =>
          breakpoints' = breakpoints]_vars

C17_Witness ==
    /\ pc = "check" /\ poll_count = 0 /\ pause_file
    /\ breakpoint_file.state = "parsed" /\ ~WellFormed
    /\ breakpoint_file.items # <<>>
    /\ normpath(platform, Head(breakpoint_file.items).source_path) \in DOMAIN breakpoints

\* the well-formed definition file declares (normalized source, lineno)
DeclaredNormalized(source, lineno) ==
    /\ WellFormed
    /\ normpath(platform, source) \in DOMAIN NormalizedContent
    /\ lineno \in NormalizedContent[normpath(platform, source)]

\* C18: the definition file being loaded at start-up and edited only while
\* the engine is blocked, a keyword-start at a (source, line) that the file
\* declares pauses, however long the pause of the edit lasted.
C18_BreakpointAddedInPausePauses ==
    [][KeywordStarts =>
          \A source \in KwSources, lineno \in KwLines :
            (source # <<>> /\ lineno > 0 /\ DeclaredNormalized(source, lineno)) =>
              \A writable \in BOOLEAN :
                StartKeywordWith(source, lineno, writable) => pause_count' = 1]_vars

C18_Witness ==
    /\ pc = "run" /\ ~pause_file /\ current_depth = 0
    /\ \E source \in KwSources, lineno \in KwLines :
          /\ source # <<>> /\ lineno > 0
          /\ DeclaredNormalized(source, lineno)
          /\ ~InBreakpointSet(source, lineno)

\* this step is an end_keyword event of the recorder
RecKeywordEnds == recorder'._current_depth = recorder._current_depth - 1

\* C19: every keyword-end with status FAIL adds exactly one entry to
\* call_stacks, with or without a source, inside or outside a test.
C19_EveryFailureIsRecorded ==
    [][RecKeywordEnds =>
          \A message \in Messages :
            RecEndKeywordWith("FAIL", message) =>
                Cardinality(DOMAIN recorder'.call_stacks)
                    = Cardinality(DOMAIN recorder.call_stacks) + 1]_vars

C19_Witness ==
    /\ recorder.current_test = "None" /\ recorder._current_depth = 0
    /\ recorder.failed_keywords # <<>>
    /\ DOMAIN recorder.call_stacks = {}

\* C20: the frames of a failure record are the call path of the failure,
\* outermost first: one frame for each active keyword, at its depth, the
\* failing keyword being the last frame and the only one marked as failure
\* point.
C20_FailureRecordIsCallPath ==
    \A k \in DOMAIN recorder.call_stacks :
        LET call_stack == recorder.call_stacks[k]
            failure_point == call_stack[Len(call_stack)]
        IN /\ "is_failure_point" \in DOMAIN failure_point
           /\ failure_point.status = "FAIL"
           /\ Len(call_stack) = failure_point.depth
           /\ \A i \in 1..(Len(call_stack) - 1) :
                 /\ "is_failure_point" \notin DOMAIN call_stack[i]
                 /\ call_stack[i].depth = i

\* test T ran A, then B inside it, B failed with "boom" as the first
\* failure of the run, and T ended with status FAIL
C20_Witness ==
    /\ "T" \in DOMAIN recorder.test_results
    /\ recorder.test_results["T"].status = "FAIL"
    /\ stack_key("T", 0) \in DOMAIN recorder.call_stacks
    /\ LET call_stack == recorder.call_stacks[stack_key("T", 0)]
       IN /\ call_stack[1].name = "A" /\ call_stack[1].depth = 1
          /\ call_stack[Len(call_stack)].name = "B"
          /\ call_stack[Len(call_stack)].depth = 2
          /\ call_stack[Len(call_stack)].message = "boom"

\* the failure records this step adds
AddedRecords == DOMAIN recorder'.call_stacks \ DOMAIN recorder.call_stacks

\* this step is an end_keyword that finds a failure to record in a test
RecordsFailure ==
    /\ recorder.current_test # "None"
    /\ Len(recorder'.failed_keywords) = Len(recorder.failed_keywords) + 1

\* C21: no event alters or removes a stored failure record; an event adds
\* at most one, every recorded failure adds one, and its key is the name of
\* the current test followed by a suffix that no earlier key carries, the
\* number of records stored before.
C21_RecordsNeverOverwritten ==
    [][/\ \A k \in DOMAIN recorder.call_stacks :
            /\ k \in DOMAIN recorder'.call_stacks
            /\ recorder'.call_stacks[k] = recorder.call_stacks[k]
       /\ Cardinality(AddedRecords) <= 1
       /\ RecordsFailure => Cardinality(AddedRecords) = 1
       /\ \A k \in AddedRecords :
            /\ RecordsFailure
            /\ k = stack_key(recorder.current_test,
                             Cardinality(DOMAIN recorder.call_stacks))]_vars

\* test T has run once with one failure and fails again in a second run
C21_Witness ==
    /\ DOMAIN recorder.call_stacks = {stack_key("T", 0), stack_key("T", 1)}
    /\ "T" \in DOMAIN recorder.test_results
    /\ Len(recorder.test_results["T"].failed_keywords) = 1
    /\ recorder.current_test = "T" /\ Len(recorder.failed_keywords) = 1

\* the suffixes of the failure records stored under the name of a test
RecordSuffixes(name) ==
    {n \in 0..MaxFailures : stack_key(name, n) \in DOMAIN recorder.call_stacks}

\* C24: the result of every test that ended with status FAIL and with a
\* failed keyword carries a stack_trace_key, the key of the first failure
\* record stored for that test.
C24_FailedTestLinksFirstRecord ==
    \A name \in DOMAIN recorder.test_results :
        LET test_result == recorder.test_results[name]
        IN (test_result.status = "FAIL" /\ test_result.failed_keywords # <<>>)
           => /\ "stack_trace_key" \in DOMAIN test_result
              /\ \E n \in RecordSuffixes(name) :
                    /\ test_result.stack_trace_key = stack_key(name, n)
                    /\ \A m \in RecordSuffixes(name) : n <= m

\* T failed with one record, then U failed with one record of its own
C24_Witness ==
    /\ DOMAIN recorder.test_results = {"T", "U"}
    /\ recorder.test_results["T"].status = "FAIL"
    /\ recorder.test_results["U"].status = "FAIL"
    /\ Len(recorder.test_results["U"].failed_keywords) = 1
    /\ DOMAIN recorder.call_stacks = {stack_key("T", 0), stack_key("U", 1)}
    /\ "stack_trace_key" \in DOMAIN recorder.test_results["T"]
    /\ "stack_trace_key" \notin DOMAIN recorder.test_results["U"]

\* the depth of the i-th keyword failure of T, the first test of the run:
\* its failure record is the i-th record stored
failure_depth(i) ==
    LET call_stack == recorder.call_stacks[stack_key("T", i - 1)]
    IN call_stack[Len(call_stack)].depth

\* C25: when the failures of a test were recorded level by level, from an
\* inner keyword to the keywords enclosing it, the failed_keywords list of
\* the test's result has the deepest of them last.
C25_DeepestFailureLast ==
    "T" \in DOMAIN recorder.test_results =>
        LET failed == recorder.test_results["T"].failed_keywords
        IN (/\ Len(failed) >= 2
            /\ \A i \in 1..(Len(failed) - 1) :
                  failure_depth(i + 1) = failure_depth(i) - 1)
           => \A i \in 1..Len(failed) : failure_depth(i) <= failure_depth(Len(failed))

\* in T keyword B failed inside keyword A and A failed with it; the result
\* of T lists B before A
C25_Witness ==
    /\ "T" \in DOMAIN recorder.test_results
    /\ LET failed == recorder.test_results["T"].failed_keywords
       IN /\ Len(failed) = 2
          /\ failed[1].name = "B" /\ failed[2].name = "A"
          /\ failure_depth(1) = 2 /\ failure_depth(2) = 1

\* this step is start_test
TestStarts == ~in_test /\ in_test'

\* C27: every test starts with no step pending: a step command taken in an
\* earlier test, or in a keyword before the first test, whose target was
\* not reached is dropped by start_test.
C27_TestStartsWithoutPendingStep ==
    [][TestStarts => stepping_mode' = "None"]_vars

\* a test has ended with a step-over pending whose target keyword never
\* started
C27_Witness ==
    /\ ~in_test /\ pc = "run" /\ current_depth = 0
    /\ stepping_mode = "over" /\ step_depth = 1

\* C28: a pause is ended or steered only by what the controller does after
\* the pause began: while the controller leaves the pauses alone, no pause
\* ends and no pause changes the step state, whatever markers were written
\* before.
C28_PauseWaitsForController ==
    [][Paused => (pc' # "run" /\ stepping_mode' = stepping_mode
                                /\ step_depth' = step_depth)]_vars

\* the first poll of a pause has read a command from a step marker that
\* was in place before the pause began
C28_Witness ==
    /\ pc = "unlink" /\ poll_count = 1
    /\ step_file \in Commands /\ stepping_mode = step_file

\* the event ran to its end without blocking and left the pause marker as
\* it was, with one stack frame for each level of depth
ReturnsUnblocked ==
    /\ pc' = "run"
    /\ pause_file' = pause_file
    /\ current_depth' = Len(keyword_stack')

\* C23: a keyword event during which the pause marker cannot be written
\* returns without blocking, depth and stack in step; the thread enters the
\* wait loop only with the pause marker in place.
C23_UnwritableMarkerDoesNotBlock ==
    [][/\ \/ ReturnsUnblocked
          \/ ~KeywordStarts
          \/ \A source \in KwSources, lineno \in KwLines :
                ~StartKeywordWith(source, lineno, FALSE)
       /\ \/ ReturnsUnblocked
          \/ ~KeywordEnds
          \/ ~EndKeywordWith(FALSE)
       /\ (~Paused /\ Paused') => pause_file']_vars

\* a keyword has started on a breakpoint line, _pause_execution was called
\* and the thread runs on with no pause marker
C23_Witness ==
    /\ pc = "run" /\ pause_count = 1 /\ ~pause_file
    /\ current_depth = 1 /\ Len(keyword_stack) = 1
    /\ \E p \in DOMAIN breakpoints : breakpoints[p] # {}

\* C26: whatever the order of the events, in both listeners the depth is
\* the length of the stack and is not negative.
C26_DepthIsStackLengthInAnyOrder ==
    /\ current_depth = Len(keyword_stack)
    /\ current_depth >= 0
    /\ recorder._current_depth = Len(recorder._keyword_stack)
    /\ recorder._current_depth >= 0

\* a test started while a keyword was open and the keyword has ended since
C26_Witness ==
    /\ in_test /\ pc = "run"
    /\ keyword_stack = <<>> /\ current_depth = -1

\* a tracker's depth counts the frames of its stack, and every frame holds
\* its position
InStep(depth, stack) ==
    /\ depth = Len(stack)
    /\ \A i \in 1..Len(stack) : stack[i].depth = i

\* the top frame is gone and the depth is one less
Popped(depth, stack, depth_after, stack_after) ==
    /\ stack # <<>>
    /\ stack_after = SubSeq(stack, 1, Len(stack) - 1)
    /\ depth_after = depth - 1

\* C22: with well-nested events, in both listeners the depth is the length
\* of the stack, every frame's depth is its position, keyword-start pushes
\* one frame, keyword-end, passed or failed, removes one and decrements,
\* after the pause if the event paused, and test start leaves stack and
\* depth empty and 0.
C22_DepthFollowsNesting ==
    /\ [](InStep(current_depth, keyword_stack))
    /\ [](InStep(recorder._current_depth, recorder._keyword_stack))
    /\ [][/\ KeywordStarts => Len(keyword_stack') = Len(keyword_stack) + 1
          /\ \/ Popped(current_depth, keyword_stack,
                        current_depth', keyword_stack')
             \/ pc # "run" \/ pc' # "run"
             \/ ~EndKeyword
          /\ (PauseEnds /\ pause_kind = "out")
              => Popped(current_depth, keyword_stack,
                        current_depth', keyword_stack')
          /\ (PauseEnds /\ pause_kind # "out")
              => UNCHANGED <<current_depth, keyword_stack>>
          /\ TestStarts => (current_depth' = 0 /\ keyword_stack' = <<>>)
          /\ \/ recorder' = recorder
             \/ /\ \/ /\ recorder'._current_depth = recorder._current_depth + 1
                       /\ Len(recorder'._keyword_stack)
                            = Len(recorder._keyword_stack) + 1
                    \/ ~AnyRecStartKeyword
                /\ \/ Popped(recorder._current_depth, recorder._keyword_stack,
                              recorder'._current_depth, recorder'._keyword_stack)
                   \/ ~NestedRecEndKeyword
                /\ \/ /\ recorder'._current_depth = 0
                      /\ recorder'._keyword_stack = <<>>
                   \/ ~NestedRecStartTest]_vars

\* in a test, the last open keyword has ended after a step-out pause taken
\* during its end event
C22_Witness ==
    /\ in_test /\ pc = "run" /\ pause_count = 1 /\ pause_file
    /\ current_depth = 0 /\ keyword_stack = <<>>
    /\ stepping_mode = "None" /\ step_depth = 1

\* the thread is in the poll loop of _pause_execution
InPollLoop == pc \in {"check", "sleep", "unlink"}

\* C29: the snapshot of a pause is written, or given up, before the pause
\* marker exists: while the marker can be seen the listener is not about to
\* write the snapshot nor in the middle of writing it, and the snapshot
\* does not change during the wait.
C29_SnapshotSettledBeforeMarker ==
    /\ [](pause_file => pc \notin {"export", "dump"})
    /\ [][(InPollLoop /\ pause_file) => variable_file' = variable_file]_vars

\* the pause marker of an earlier pause, ended by a step command, is still
\* there while the next pause has emptied the snapshot file to rewrite it
C29_Witness ==
    /\ pause_file /\ pc = "dump" /\ variable_file = "partial"
    /\ pause_kind \in {"over", "into", "out"}

====
